---- MODULE Spec2Model ----
(***************************************************************************)
(* Model of api/meli-scan-worker.js: one HTTP handler that claims a batch  *)
(* of pending scan jobs, fetches listings from the marketplace (public     *)
(* fetch, with one refresh-and-retry on 401 for seller jobs), upserts the  *)
(* listing rows and finalizes each job.  Every `await` of the handler is   *)
(* one atomic step of an invocation; invocations interleave at the awaits. *)
(* Writes to meli_scan_jobs are taken to succeed: the handler never looks  *)
(* at their result.  body.limit only shapes the URL and is left at its     *)
(* default.                                                                *)
(***************************************************************************)
EXTENDS Integers, Sequences, FiniteSets, TLC

\* ------------------------------------------------------------------ bounds
NJobs == 3
MaxBatch == 2

\* ------------------------------------------------------- program constants
DefaultBatch == 5
DefaultLimit == 50

Procs == {"inv1", "inv2"}
JobIds == 1..NJobs
Sites == {"MLC", "MLA"}

\* category_id as a sequence of tokens, so that the seller marker is a prefix
CatPlain == <<"MLC1234">>
CatSeller == <<"SELLER:", "555">>
CatInfix == <<"MLC", "SELLER:">>
Cats == {CatPlain, CatSeller, CatInfix}

\* String(job.category_id).startsWith('SELLER:')
IsSeller(category_id) == Len(category_id) > 0 /\ category_id[1] = "SELLER:"

\* ---------------------------------------------------------------- payloads
\* An item of a marketplace answer: a bare id string or an object with an id.
StrItem(id) == [isString |-> TRUE, id |-> id, title |-> "null"]
ObjItem(id, title) == [isString |-> FALSE, id |-> id, title |-> title]

\* A response body.  kind "malformed" is a body res.json() rejects.
Body(kind, resultsIsArray, results, elems) ==
    [kind |-> kind, resultsIsArray |-> resultsIsArray, results |-> results, elems |-> elems]
EmptyObject == Body("object", FALSE, <<>>, <<>>)
Malformed == Body("malformed", FALSE, <<>>, <<>>)
Wrapped(results) == Body("object", TRUE, results, <<>>)
Bare(elems) == Body("array", FALSE, <<>>, elems)

\* resMl.json().catch(() => ({}))
ParseJson(body) == IF body.kind = "malformed" THEN EmptyObject ELSE body

extractItems_ResultsOnly(payload) ==
    IF payload.kind = "object" /\ payload.resultsIsArray /\ Len(payload.results) > 0
    THEN payload.results
    ELSE <<>>

extractItems(payload) ==
    IF payload.kind = "object" /\ payload.resultsIsArray /\ Len(payload.results) > 0
    THEN payload.results
    ELSE IF payload.kind = "array" /\ Len(payload.elems) > 0
         THEN payload.elems
         ELSE <<>>

\* res.ok
IsOk(status) == status >= 200 /\ status <= 299


\* ------------------------------------------------------------------- state
VARIABLES
    jobs,       \* table meli_scan_jobs: id -> row
    creds,      \* table meli_oauth_tokens, oldest updated_at first
    table,      \* table meli_category_items, in insertion order
    oauthGen,   \* number of token pairs the OAuth endpoint has issued
    pc,         \* per invocation: the await it is parked at
    req,        \* per invocation: the request as the handler read it
    claimed,    \* per invocation: `jobs`, the rows the claim select returned
    tok,        \* per invocation: token_source, accessToken, refreshTok
    acc,        \* per invocation: results, processed, inserted
    cur,        \* per invocation: locals of the loop body for the current job
    response,   \* per invocation: what was sent with res.json
    trace       \* per invocation, per entered job: the calls made for it (history)

vars == <<jobs, creds, table, oauthGen, pc, req, claimed, tok, acc, cur, response, trace>>
dbVars == <<jobs, creds, table>>

Null == [kind |-> "null", status |-> 0, payload |-> EmptyObject, msg |-> ""]
MlError(status, payload) == [kind |-> "ML", status |-> status, payload |-> payload, msg |-> ""]
DbUpsertError(msg) == [kind |-> "DB upsert error", status |-> 0, payload |-> EmptyObject, msg |-> msg]

JobRow(site_id, category_id, status, attempts) ==
    [site_id |-> site_id, category_id |-> category_id, status |-> status,
     attempts |-> attempts, last_error |-> Null]

\* tokens: <<family, generation>>
NoTok == <<"", 0>>
HeaderTok == <<"H", 0>>
AccessTok(n) == <<"AT", n>>
RefreshTok(n) == <<"RT", n>>
CredRow(user_id, access_token, refresh_token) ==
    [user_id |-> user_id, access_token |-> access_token, refresh_token |-> refresh_token]

\* the Authorization header as a sequence of tokens; <<>> is an absent header
HdrAbsent == <<>>
HdrBlank == <<" ">>
HdrBearer == <<"Bearer", " ", "H">>
Headers == {HdrAbsent, HdrBlank, HdrBearer}

RECURSIVE TrimLeft(_)
TrimLeft(h) == IF h # <<>> /\ Head(h) = " " THEN TrimLeft(Tail(h)) ELSE h
RECURSIVE TrimRight(_)
TrimRight(h) ==
    IF h # <<>> /\ h[Len(h)] = " " THEN TrimRight(SubSeq(h, 1, Len(h) - 1)) ELSE h
\* String.prototype.trim
Trim(h) == TrimRight(TrimLeft(h))
ToLowerCase(w) == IF w = "Bearer" THEN "bearer" ELSE w
BearerCredential_KeepScheme(h) == <<h[1], 0>>

\* the credential a trimmed, non-empty header carries
BearerCredential(h) ==
    LET rest == IF Len(h) >= 2 /\ ToLowerCase(h[1]) = "bearer" /\ h[2] = " "
                THEN Trim(SubSeq(h, 3, Len(h)))
                ELSE h
    IN  IF rest = <<>> THEN NoTok ELSE <<rest[1], 0>>

\* ------------------------------------------------------------ the request
ReqBody(hasSite, site_id, hasBatch, batch) ==
    [hasSite |-> hasSite, site_id |-> site_id, hasBatch |-> hasBatch, batch |-> batch]
\* the default batch is exercised on the site that has the fewest jobs
ReqBodies ==
    {ReqBody(FALSE, "", TRUE, b) : b \in 1..MaxBatch}
        \cup {ReqBody(TRUE, s, TRUE, b) : s \in Sites, b \in 1..MaxBatch}
        \cup {ReqBody(TRUE, "MLA", FALSE, 0)}
\* String(body.site_id ?? (body.country === 'CL' ? 'MLC' : 'MLC'))
SiteOf(body) == IF body.hasSite THEN body.site_id ELSE "MLC"
\* Number(body.batch ?? 5)
BatchOf(body) == IF body.hasBatch THEN body.batch ELSE DefaultBatch
Methods == {"POST", "GET"}

NoReq == [method |-> "", site_id |-> "", batch |-> 0, limit |-> 0, header |-> HdrAbsent]
NoTokens == [token_source |-> "none", accessToken |-> NoTok, refreshTok |-> NoTok]
NoAcc == [results |-> <<>>, processed |-> 0, inserted |-> 0]
NoCur == [status |-> 0, payload |-> EmptyObject, items |-> <<>>, rows |-> <<>>,
          newAccess |-> NoTok, newRefresh |-> NoTok, hasUser |-> FALSE]
NoResponse == [code |-> 0, ok |-> FALSE, msg |-> "", error |-> "", site_id |-> "",
               batch |-> 0, limit |-> 0, processed |-> 0, inserted |-> 0,
               token_source |-> "", results |-> <<>>]


\* ------------------------------------------------------- database helpers
RECURSIVE TakeAsc(_, _)
\* .order('id', { ascending: true }).limit(n) over the ids in S
TakeAsc(S, n) ==
    IF S = {} \/ n <= 0 THEN <<>>
    ELSE LET m == CHOOSE x \in S : \A y \in S : x <= y
         IN  <<m>> \o TakeAsc(S \ {m}, n - 1)

PendingIds(site_id) ==
    {j \in JobIds : jobs[j].status = "pending" /\ jobs[j].site_id = site_id}

SelectPending_Descending(site_id, batch) ==
    LET asc == TakeAsc(PendingIds(site_id), batch)
        ids == [i \in 1..Len(asc) |-> asc[Len(asc) + 1 - i]]
    IN  [i \in 1..Len(ids) |->
            [id |-> ids[i], site_id |-> jobs[ids[i]].site_id,
             category_id |-> jobs[ids[i]].category_id,
             status |-> jobs[ids[i]].status, attempts |-> jobs[ids[i]].attempts]]

SelectPending_AnySite(site_id, batch) ==
    LET ids == TakeAsc({j \in JobIds : jobs[j].status = "pending"}, batch)
    IN  [i \in 1..Len(ids) |->
            [id |-> ids[i], site_id |-> jobs[ids[i]].site_id,
             category_id |-> jobs[ids[i]].category_id,
             status |-> jobs[ids[i]].status, attempts |-> jobs[ids[i]].attempts]]

\* the rows the claim select returns: id, site_id, category_id, status, attempts
SelectPending(site_id, batch) ==
    LET ids == TakeAsc(PendingIds(site_id), batch)
    IN  [i \in 1..Len(ids) |->
            [id |-> ids[i], site_id |-> jobs[ids[i]].site_id,
             category_id |-> jobs[ids[i]].category_id,
             status |-> jobs[ids[i]].status, attempts |-> jobs[ids[i]].attempts]]

\* .order('updated_at', { ascending: false }).limit(1).maybeSingle()
LatestCred == creds[Len(creds)]
HasUsableCred ==
    /\ creds # <<>>
    /\ LatestCred.access_token # NoTok
    /\ LatestCred.refresh_token # NoTok

SameKey(r1, r2) == r1.site_id = r2.site_id /\ r1.item_id = r2.item_id

UpsertOne_AlwaysInsert(t, row) == Append(t, row)

\* INSERT ... ON CONFLICT (site_id, item_id) DO UPDATE, for one row
UpsertOne(t, row) ==
    IF \E i \in 1..Len(t) : SameKey(t[i], row)
    THEN [i \in 1..Len(t) |-> IF SameKey(t[i], row) THEN row ELSE t[i]]
    ELSE Append(t, row)

RECURSIVE UpsertRows(_, _)
UpsertRows(t, rows) ==
    IF rows = <<>> THEN t ELSE UpsertRows(UpsertOne(t, Head(rows)), Tail(rows))

\* items.map(...) of the handler
BuildRows(job, site_id, items) ==
    [i \in 1..Len(items) |->
        [job_id |-> job.id, site_id |-> site_id, category_id |-> job.category_id,
         item_id |-> items[i].id,
         title |-> IF items[i].isString THEN "null" ELSE items[i].title,
         raw |-> items[i]]]

\* the credential write of refreshToken, latest updated_at last
SaveCred(hasUser, user_id, oldRefresh, access_token, refresh_token) ==
    LET keep(r) == IF hasUser THEN r.user_id # user_id ELSE r.refresh_token # oldRefresh
        hit == SelectSeq(creds, LAMBDA r : ~keep(r))
        changed == [i \in 1..Len(hit) |->
                       CredRow(hit[i].user_id, access_token, refresh_token)]
    IN  SelectSeq(creds, keep) \o
        (IF hasUser THEN <<CredRow(user_id, access_token, refresh_token)>> ELSE changed)

\* ---------------------------------------------------------- per-job trace
NewTrace == [pub |-> 0, refresh |-> 0, priv |-> 0, pubStatus |-> 0, finalStatus |-> 0,
             upserts |-> 0, upsertedRows |-> 0,
             sentRefresh |-> NoTok, gotAccess |-> NoTok, gotRefresh |-> NoTok,
             sentAccess |-> NoTok]
CurJob(p) == claimed[p][acc[p].processed]


\* ---------------------------------------------------- inputs of the model
ItemX == ObjItem("MLC111", "X")
MlBodies ==
    {Malformed, EmptyObject, Wrapped(<<>>), Bare(<<>>), Wrapped(<<ItemX>>),
     Bare(<<StrItem("MLC999"), StrItem("MLC111")>>)}
MlResponse(status, body) == [status |-> status, body |-> body]
MlResponses ==
    {MlResponse(200, b) : b \in MlBodies}
        \cup {MlResponse(401, EmptyObject), MlResponse(500, Malformed),
              MlResponse(500, Wrapped(<<ItemX>>))}

\* answers of the OAuth token endpoint
OAuthResponse(ok, hasUser, hasRefresh) ==
    [ok |-> ok, hasUser |-> hasUser, hasRefresh |-> hasRefresh]
OAuthResponses ==
    {OAuthResponse(FALSE, FALSE, FALSE), OAuthResponse(TRUE, TRUE, TRUE),
     OAuthResponse(TRUE, FALSE, FALSE)}

StoredCred == CredRow("u1", AccessTok(0), RefreshTok(0))
InitCreds == {<<>>, <<StoredCred>>, <<CredRow("u1", AccessTok(0), NoTok)>>}

\* job tables: every job pending on MLC with a seller category, except that
\* one job may have a plain category, be on the other site, be already done,
\* or carry the marker inside its category code
DefaultJobs == {JobRow("MLC", CatSeller, "pending", 0)}
OddJobs == {JobRow("MLC", CatPlain, "pending", 0), JobRow("MLA", CatPlain, "pending", 0),
            JobRow("MLA", CatSeller, "pending", 0),
            JobRow("MLC", CatPlain, "done", 1), JobRow("MLC", CatInfix, "pending", 0)}
InitJobTables ==
    {t \in [JobIds -> DefaultJobs \cup OddJobs] :
        Cardinality({j \in JobIds : t[j] \in OddJobs}) <= 1}

\* -------------------------------------------------------------------- Init
InitDb ==
    /\ jobs \in InitJobTables
    /\ creds \in InitCreds
    /\ table = <<>>
    /\ oauthGen = 0

InitProcs(active) ==
    /\ pc = [p \in Procs |-> IF p \in active THEN "start" ELSE "off"]
    /\ req = [p \in Procs |-> NoReq]
    /\ claimed = [p \in Procs |-> <<>>]
    /\ tok = [p \in Procs |-> NoTokens]
    /\ acc = [p \in Procs |-> NoAcc]
    /\ cur = [p \in Procs |-> NoCur]
    /\ response = [p \in Procs |-> NoResponse]
    /\ trace = [p \in Procs |-> <<>>]

Init == InitDb /\ InitProcs({"inv1"})

\* ----------------------------------------------------------------- actions
Send(p, r) ==
    /\ response' = [response EXCEPT ![p] = r]
    /\ pc' = [pc EXCEPT ![p] = "done"]

\* catch (err) { res.status(500).json({ ok: false, error: ... }) }
Catch(p, message) ==
    Send(p, [NoResponse EXCEPT !.code = 500, !.error = message])

Start_AnyMethod(p, method, body, header) ==
    /\ pc[p] = "start"
    /\ req' = [req EXCEPT ![p] = [method |-> method, site_id |-> SiteOf(body),
                                  batch |-> BatchOf(body), limit |-> DefaultLimit,
                                  header |-> header]]
    /\ pc' = [pc EXCEPT ![p] = "claim"]
    /\ UNCHANGED <<dbVars, oauthGen, claimed, tok, acc, cur, response, trace>>

\* the method check; the body defaults are read here as well
Start(p, method, body, header) ==
    /\ pc[p] = "start"
    /\ req' = [req EXCEPT ![p] = [method |-> method, site_id |-> SiteOf(body),
                                  batch |-> BatchOf(body), limit |-> DefaultLimit,
                                  header |-> header]]
    /\ IF method # "POST"
       THEN Send(p, [NoResponse EXCEPT !.code = 405, !.error = "Method not allowed"])
       ELSE /\ pc' = [pc EXCEPT ![p] = "claim"]
            /\ UNCHANGED response
    /\ UNCHANGED <<dbVars, oauthGen, claimed, tok, acc, cur, trace>>

Claim_NoEmptyCheck(p, selectOk) ==
    /\ pc[p] = "claim"
    /\ IF ~selectOk
       THEN /\ Send(p, [NoResponse EXCEPT !.code = 500, !.error = "jobsErr"])
            /\ UNCHANGED claimed
       ELSE /\ claimed' = [claimed EXCEPT ![p] =
                              SelectPending(req[p].site_id, req[p].batch)]
            /\ pc' = [pc EXCEPT ![p] = "token"]
            /\ UNCHANGED response
    /\ UNCHANGED <<dbVars, oauthGen, req, tok, acc, cur, trace>>

\* the claim select, its error branch and the no_jobs branch
Claim(p, selectOk) ==
    /\ pc[p] = "claim"
    /\ LET rows == SelectPending(req[p].site_id, req[p].batch)
       IN  IF ~selectOk
           THEN /\ Send(p, [NoResponse EXCEPT !.code = 500, !.error = "jobsErr"])
                /\ UNCHANGED claimed
           ELSE IF Len(rows) = 0
           THEN /\ Send(p, [NoResponse EXCEPT !.code = 200, !.ok = TRUE,
                               !.msg = "no_jobs", !.site_id = req[p].site_id,
                               !.batch = req[p].batch, !.limit = req[p].limit])
                /\ UNCHANGED claimed
           ELSE /\ claimed' = [claimed EXCEPT ![p] = rows]
                /\ pc' = [pc EXCEPT ![p] = "token"]
                /\ UNCHANGED response
    /\ UNCHANGED <<dbVars, oauthGen, req, tok, acc, cur, trace>>

\* token resolution: the header, then getLatestToken
ResolveToken(p, readOk) ==
    /\ pc[p] = "token"
    /\ LET incomingBearer == Trim(req[p].header)
       IN  IF ~readOk
           THEN Catch(p, "credential read failed") /\ UNCHANGED tok
           ELSE IF ~HasUsableCred
           THEN Catch(p, "No token found in meli_oauth_tokens") /\ UNCHANGED tok
           ELSE /\ tok' = [tok EXCEPT ![p] =
                              IF incomingBearer # <<>>
                              THEN [token_source |-> "header",
                                    accessToken |-> BearerCredential(incomingBearer),
                                    refreshTok |-> LatestCred.refresh_token]
                              ELSE [token_source |-> "db",
                                    accessToken |-> LatestCred.access_token,
                                    refreshTok |-> LatestCred.refresh_token]]
                /\ pc' = [pc EXCEPT ![p] = "loop"]
                /\ UNCHANGED response
    /\ UNCHANGED <<dbVars, oauthGen, req, claimed, acc, cur, trace>>

MarkProcessing_OnlyIfPending(p) ==
    /\ pc[p] = "loop"
    /\ acc[p].processed < Len(claimed[p])
    /\ LET job == claimed[p][acc[p].processed + 1]
       IN  /\ jobs[job.id].status = "pending"
           /\ jobs' = [jobs EXCEPT ![job.id] =
                          [@ EXCEPT !.status = "processing",
                                    !.attempts = job.attempts + 1,
                                    !.last_error = Null]]
    /\ acc' = [acc EXCEPT ![p].processed = @ + 1]
    /\ cur' = [cur EXCEPT ![p] = NoCur]
    /\ trace' = [trace EXCEPT ![p] = Append(@, NewTrace)]
    /\ pc' = [pc EXCEPT ![p] = "fetch"]
    /\ UNCHANGED <<creds, table, oauthGen, req, claimed, tok, response>>

MarkProcessing_KeepsStatus(p) ==
    /\ pc[p] = "loop"
    /\ acc[p].processed < Len(claimed[p])
    /\ LET job == claimed[p][acc[p].processed + 1]
       IN  jobs' = [jobs EXCEPT ![job.id] =
                       [@ EXCEPT !.attempts = job.attempts + 1, !.last_error = Null]]
    /\ acc' = [acc EXCEPT ![p].processed = @ + 1]
    /\ cur' = [cur EXCEPT ![p] = NoCur]
    /\ trace' = [trace EXCEPT ![p] = Append(@, NewTrace)]
    /\ pc' = [pc EXCEPT ![p] = "fetch"]
    /\ UNCHANGED <<creds, table, oauthGen, req, claimed, tok, response>>

\* loop head with a job left: processed++ and the update to 'processing'
MarkProcessing(p) ==
    /\ pc[p] = "loop"
    /\ acc[p].processed < Len(claimed[p])
    /\ LET job == claimed[p][acc[p].processed + 1]
       IN  jobs' = [jobs EXCEPT ![job.id] =
                       [@ EXCEPT !.status = "processing",
                                 !.attempts = job.attempts + 1,
                                 !.last_error = Null]]
    /\ acc' = [acc EXCEPT ![p].processed = @ + 1]
    /\ cur' = [cur EXCEPT ![p] = NoCur]
    /\ trace' = [trace EXCEPT ![p] = Append(@, NewTrace)]
    /\ pc' = [pc EXCEPT ![p] = "fetch"]
    /\ UNCHANGED <<creds, table, oauthGen, req, claimed, tok, response>>

\* loop head with no job left: the summary
Respond(p) ==
    /\ pc[p] = "loop"
    /\ acc[p].processed >= Len(claimed[p])
    /\ Send(p, [NoResponse EXCEPT !.code = 200, !.ok = TRUE,
                   !.site_id = req[p].site_id, !.processed = acc[p].processed,
                   !.inserted = acc[p].inserted,
                   !.token_source = tok[p].token_source,
                   !.results = acc[p].results])
    /\ UNCHANGED <<dbVars, oauthGen, req, claimed, tok, acc, cur, trace>>


Classified_UpsertAlways(p, r) ==
    LET payload == ParseJson(r.body)
        items == IF IsOk(r.status) THEN extractItems(payload) ELSE <<>>
    IN  /\ cur' = [cur EXCEPT ![p].status = r.status, ![p].payload = payload,
                              ![p].items = items,
                              ![p].rows = BuildRows(CurJob(p), req[p].site_id, items)]
        /\ pc' = [pc EXCEPT ![p] = IF ~IsOk(r.status) THEN "mark_error" ELSE "upsert"]

Classified_IgnoreStatus(p, r) ==
    LET payload == ParseJson(r.body)
        items == extractItems(payload)
    IN  /\ cur' = [cur EXCEPT ![p].status = r.status, ![p].payload = payload,
                              ![p].items = items,
                              ![p].rows = BuildRows(CurJob(p), req[p].site_id, items)]
        /\ pc' = [pc EXCEPT ![p] =
                     IF Len(items) > 0 THEN "upsert"
                     ELSE IF ~IsOk(r.status) THEN "mark_error"
                     ELSE "mark_done"]

\* lines 192-226 once the final response is in hand: parse, classify, extract
\* and build the rows; all of it local to the invocation
Classified(p, r) ==
    LET payload == ParseJson(r.body)
        items == IF IsOk(r.status) THEN extractItems(payload) ELSE <<>>
    IN  /\ cur' = [cur EXCEPT ![p].status = r.status, ![p].payload = payload,
                              ![p].items = items,
                              ![p].rows = BuildRows(CurJob(p), req[p].site_id, items)]
        /\ pc' = [pc EXCEPT ![p] =
                     IF ~IsOk(r.status) THEN "mark_error"
                     ELSE IF Len(items) > 0 THEN "upsert"
                     ELSE "mark_done"]

NeedsRetry_AnyMode(job, status) == status = 401

\* isSeller && resMl.status === 401
NeedsRetry(job, status) == IsSeller(job.category_id) /\ status = 401

\* mlGetPublic
FetchPublic(p, r) ==
    /\ pc[p] = "fetch"
    /\ trace' = [trace EXCEPT ![p][acc[p].processed] =
                    [@ EXCEPT !.pub = @ + 1, !.pubStatus = r.status,
                              !.finalStatus = r.status]]
    /\ IF NeedsRetry(CurJob(p), r.status)
       THEN /\ pc' = [pc EXCEPT ![p] = "refresh"]
            /\ cur' = [cur EXCEPT ![p].status = r.status]
       ELSE Classified(p, r)
    /\ UNCHANGED <<dbVars, oauthGen, req, claimed, tok, acc, response>>

\* refreshToken up to the OAuth answer
Refresh(p, o) ==
    /\ pc[p] = "refresh"
    /\ trace' = [trace EXCEPT ![p][acc[p].processed] =
                    [@ EXCEPT !.refresh = @ + 1,
                              !.sentRefresh = tok[p].refreshTok,
                              !.gotAccess = IF o.ok THEN AccessTok(oauthGen + 1) ELSE NoTok,
                              !.gotRefresh = IF ~o.ok THEN NoTok
                                             ELSE IF o.hasRefresh THEN RefreshTok(oauthGen + 1)
                                             ELSE tok[p].refreshTok]]
    /\ IF ~o.ok
       THEN /\ Catch(p, "Refresh token failed")
            /\ UNCHANGED <<oauthGen, cur>>
       ELSE /\ oauthGen' = oauthGen + 1
            /\ cur' = [cur EXCEPT ![p].newAccess = AccessTok(oauthGen + 1),
                                  ![p].newRefresh = IF o.hasRefresh
                                                    THEN RefreshTok(oauthGen + 1)
                                                    ELSE tok[p].refreshTok,
                                  ![p].hasUser = o.hasUser]
            /\ pc' = [pc EXCEPT ![p] = "refresh_save"]
            /\ UNCHANGED response
    /\ UNCHANGED <<dbVars, req, claimed, tok, acc>>

RefreshSave_KeepsOldAccess(p, writeOk) ==
    /\ pc[p] = "refresh_save"
    /\ IF ~writeOk
       THEN /\ Catch(p, "credential write failed")
            /\ UNCHANGED <<creds, tok>>
       ELSE /\ creds' = SaveCred(cur[p].hasUser, "u1", tok[p].refreshTok,
                                 cur[p].newAccess, cur[p].newRefresh)
            /\ tok' = [tok EXCEPT ![p].refreshTok = cur[p].newRefresh]
            /\ pc' = [pc EXCEPT ![p] = "private"]
            /\ UNCHANGED response
    /\ UNCHANGED <<jobs, table, oauthGen, req, claimed, acc, cur, trace>>

RefreshSave_KeepsOldRefresh(p, writeOk) ==
    /\ pc[p] = "refresh_save"
    /\ IF ~writeOk
       THEN /\ Catch(p, "credential write failed")
            /\ UNCHANGED <<creds, tok>>
       ELSE /\ creds' = SaveCred(cur[p].hasUser, "u1", tok[p].refreshTok,
                                 cur[p].newAccess, cur[p].newRefresh)
            /\ tok' = [tok EXCEPT ![p].accessToken = cur[p].newAccess]
            /\ pc' = [pc EXCEPT ![p] = "private"]
            /\ UNCHANGED response
    /\ UNCHANGED <<jobs, table, oauthGen, req, claimed, acc, cur, trace>>

\* refreshToken from the credential write to the return, and lines 187-188
RefreshSave(p, writeOk) ==
    /\ pc[p] = "refresh_save"
    /\ IF ~writeOk
       THEN /\ Catch(p, "credential write failed")
            /\ UNCHANGED <<creds, tok>>
       ELSE /\ creds' = SaveCred(cur[p].hasUser, "u1", tok[p].refreshTok,
                                 cur[p].newAccess, cur[p].newRefresh)
            /\ tok' = [tok EXCEPT ![p].accessToken = cur[p].newAccess,
                                  ![p].refreshTok = cur[p].newRefresh]
            /\ pc' = [pc EXCEPT ![p] = "private"]
            /\ UNCHANGED response
    /\ UNCHANGED <<jobs, table, oauthGen, req, claimed, acc, cur, trace>>

FetchPrivate_RetryAgain(p, r) ==
    /\ pc[p] = "private"
    /\ trace' = [trace EXCEPT ![p][acc[p].processed] =
                    [@ EXCEPT !.priv = @ + 1, !.finalStatus = r.status,
                              !.sentAccess = tok[p].accessToken]]
    /\ IF NeedsRetry(CurJob(p), r.status) /\ trace[p][acc[p].processed].priv < 2
       THEN /\ pc' = [pc EXCEPT ![p] = "refresh"]
            /\ cur' = [cur EXCEPT ![p].status = r.status]
       ELSE Classified(p, r)
    /\ UNCHANGED <<dbVars, oauthGen, req, claimed, tok, acc, response>>

\* mlGetPrivate
FetchPrivate(p, r) ==
    /\ pc[p] = "private"
    /\ trace' = [trace EXCEPT ![p][acc[p].processed] =
                    [@ EXCEPT !.priv = @ + 1, !.finalStatus = r.status,
                              !.sentAccess = tok[p].accessToken]]
    /\ Classified(p, r)
    /\ UNCHANGED <<dbVars, oauthGen, req, claimed, tok, acc, response>>

ResultEntry(job) ==
    [job_id |-> job.id, category |-> job.category_id, ok |-> FALSE, items |-> 0,
     mode |-> "", status |-> 0, payload |-> EmptyObject, db_error |-> ""]

Push(p, entry) == acc' = [acc EXCEPT ![p].results = Append(@, entry)]

MarkError_Abort(p) ==
    /\ pc[p] = "mark_error"
    /\ jobs' = [jobs EXCEPT ![CurJob(p).id] =
                   [@ EXCEPT !.status = "error",
                             !.last_error = MlError(cur[p].status, cur[p].payload)]]
    /\ Catch(p, "marketplace failure")
    /\ UNCHANGED <<creds, table, oauthGen, req, claimed, tok, acc, cur, trace>>

\* the !resMl.ok branch: update to 'error', push, continue
MarkError(p) ==
    /\ pc[p] = "mark_error"
    /\ jobs' = [jobs EXCEPT ![CurJob(p).id] =
                   [@ EXCEPT !.status = "error",
                             !.last_error = MlError(cur[p].status, cur[p].payload)]]
    /\ Push(p, [ResultEntry(CurJob(p)) EXCEPT !.status = cur[p].status,
                                              !.payload = cur[p].payload])
    /\ pc' = [pc EXCEPT ![p] = "loop"]
    /\ UNCHANGED <<creds, table, oauthGen, req, claimed, tok, cur, response, trace>>

Upsert_CountsFailed(p, upOk) ==
    /\ pc[p] = "upsert"
    /\ trace' = [trace EXCEPT ![p][acc[p].processed] =
                    [@ EXCEPT !.upserts = @ + 1,
                              !.upsertedRows = IF upOk THEN Len(cur[p].rows) ELSE 0]]
    /\ acc' = [acc EXCEPT ![p].inserted = @ + Len(cur[p].rows)]
    /\ IF upOk
       THEN /\ table' = UpsertRows(table, cur[p].rows)
            /\ pc' = [pc EXCEPT ![p] = "mark_done"]
       ELSE /\ pc' = [pc EXCEPT ![p] = "mark_error_db"]
            /\ UNCHANGED table
    /\ UNCHANGED <<jobs, creds, oauthGen, req, claimed, tok, cur, response>>

\* the upsert of the rows; on success inserted += rows.length
Upsert(p, upOk) ==
    /\ pc[p] = "upsert"
    /\ trace' = [trace EXCEPT ![p][acc[p].processed] =
                    [@ EXCEPT !.upserts = @ + 1,
                              !.upsertedRows = IF upOk THEN Len(cur[p].rows) ELSE 0]]
    /\ IF upOk
       THEN /\ table' = UpsertRows(table, cur[p].rows)
            /\ acc' = [acc EXCEPT ![p].inserted = @ + Len(cur[p].rows)]
            /\ pc' = [pc EXCEPT ![p] = "mark_done"]
       ELSE /\ pc' = [pc EXCEPT ![p] = "mark_error_db"]
            /\ UNCHANGED <<table, acc>>
    /\ UNCHANGED <<jobs, creds, oauthGen, req, claimed, tok, cur, response>>

MarkErrorDb_FallsThrough(p) ==
    /\ pc[p] = "mark_error_db"
    /\ jobs' = [jobs EXCEPT ![CurJob(p).id] =
                   [@ EXCEPT !.status = "error",
                             !.last_error = DbUpsertError("upErr")]]
    /\ Push(p, [ResultEntry(CurJob(p)) EXCEPT !.db_error = "upErr"])
    /\ pc' = [pc EXCEPT ![p] = "mark_done"]
    /\ UNCHANGED <<creds, table, oauthGen, req, claimed, tok, cur, response, trace>>

\* the upErr branch: update to 'error', push, continue
MarkErrorDb(p) ==
    /\ pc[p] = "mark_error_db"
    /\ jobs' = [jobs EXCEPT ![CurJob(p).id] =
                   [@ EXCEPT !.status = "error",
                             !.last_error = DbUpsertError("upErr")]]
    /\ Push(p, [ResultEntry(CurJob(p)) EXCEPT !.db_error = "upErr"])
    /\ pc' = [pc EXCEPT ![p] = "loop"]
    /\ UNCHANGED <<creds, table, oauthGen, req, claimed, tok, cur, response, trace>>

\* update to 'done' and the success entry
MarkDone(p) ==
    /\ pc[p] = "mark_done"
    /\ jobs' = [jobs EXCEPT ![CurJob(p).id] =
                   [@ EXCEPT !.status = "done", !.last_error = Null]]
    /\ Push(p, [ResultEntry(CurJob(p)) EXCEPT
                   !.ok = TRUE, !.items = Len(cur[p].items),
                   !.mode = IF IsSeller(CurJob(p).category_id)
                            THEN "seller" ELSE "category_public"])
    /\ pc' = [pc EXCEPT ![p] = "loop"]
    /\ UNCHANGED <<creds, table, oauthGen, req, claimed, tok, cur, response, trace>>

\* ----------------------------------------------------------- specification
\* one step of one of the invocations P, the request drawn from M, B and H,
\* the marketplace answers from R and the token endpoint's answers from O
NextWith(P, M, B, H, R, O) ==
    \E p \in P :
        \/ \E m \in M, b \in B, h \in H : Start(p, m, b, h)
        \/ \E selectOk \in BOOLEAN : Claim(p, selectOk)
        \/ \E readOk \in BOOLEAN : ResolveToken(p, readOk)
        \/ MarkProcessing(p)
        \/ \E r \in R : FetchPublic(p, r)
        \/ \E o \in O : Refresh(p, o)
        \/ \E writeOk \in BOOLEAN : RefreshSave(p, writeOk)
        \/ \E r \in R : FetchPrivate(p, r)
        \/ MarkError(p)
        \/ \E upOk \in BOOLEAN : Upsert(p, upOk)
        \/ MarkErrorDb(p)
        \/ MarkDone(p)
        \/ Respond(p)

\* one invocation, any request, any job table; the token endpoint refuses, or
\* answers with a user id and a rotated refresh token
OAuthRotating == {OAuthResponse(FALSE, FALSE, FALSE), OAuthResponse(TRUE, TRUE, TRUE)}
Next == NextWith(Procs, Methods, ReqBodies, Headers, MlResponses, OAuthRotating)
Spec == Init /\ [][Next]_vars

\* two overlapping invocations of the same request against one pending job
OnePendingJob(category_id) ==
    [j \in JobIds |-> IF j = 1 THEN JobRow("MLC", category_id, "pending", 0)
                      ELSE JobRow("MLC", CatPlain, "done", 1)]
ConcResponses ==
    {MlResponse(200, Wrapped(<<ItemX>>)),
     MlResponse(200, Bare(<<StrItem("MLC999"), StrItem("MLC111")>>)),
     MlResponse(401, EmptyObject)}
InitConc ==
    /\ jobs \in {OnePendingJob(CatPlain), OnePendingJob(CatSeller)}
    /\ creds = <<StoredCred>>
    /\ table = <<>>
    /\ oauthGen = 0
    /\ InitProcs(Procs)
NextConc ==
    NextWith(Procs, Methods, {ReqBody(FALSE, "", TRUE, 1)}, {HdrAbsent}, ConcResponses,
             OAuthResponses)
SpecConc == InitConc /\ [][NextConc]_vars

\* one invocation on one seller job, the marketplace answering with every
\* body shape up to MaxItems items
MaxItems == 2
ItemPool == {ItemX, StrItem("MLC999"), StrItem("MLC111")}
ItemSeqs == UNION {[1..n -> ItemPool] : n \in 0..MaxItems}
Scalar == Body("scalar", FALSE, <<>>, <<>>)
ExtractBodies ==
    {Malformed, EmptyObject, Scalar}
        \cup {Wrapped(q) : q \in ItemSeqs} \cup {Bare(q) : q \in ItemSeqs}
ExtractResponses ==
    {MlResponse(200, b) : b \in ExtractBodies} \cup {MlResponse(401, EmptyObject)}
InitExtract ==
    /\ jobs = OnePendingJob(CatSeller)
    /\ creds = <<StoredCred>>
    /\ table = <<>>
    /\ oauthGen = 0
    /\ InitProcs({"inv1"})
NextExtract ==
    NextWith({"inv1"}, Methods, {ReqBody(FALSE, "", FALSE, 0)}, {HdrAbsent},
             ExtractResponses, OAuthResponses)
SpecExtract == InitExtract /\ [][NextExtract]_vars


\* ------------------------------------------------------------ shared terms
Finalized(p, i) == i <= Len(acc[p].results)
IsSummary(r) == r.code = 200 /\ r.ok /\ r.msg # "no_jobs"
Entered(p) == 1..Len(trace[p])

\* -------------------------------------------------------------------- C1
\* C1: a job whose category_id does not start with the seller marker never
\* gets a token refresh or an authenticated fetch, whatever status the public
\* fetch returned, 401 included.
C1_NonSellerStaysPublic ==
    \A p \in Procs : \A i \in Entered(p) :
        ~IsSeller(claimed[p][i].category_id) =>
            /\ trace[p][i].refresh = 0
            /\ trace[p][i].priv = 0
            /\ trace[p][i].pub <= 1
            /\ (i = acc[p].processed => pc[p] \notin {"refresh", "refresh_save", "private"})

C1_Witness ==
    \E p \in Procs : \E i \in Entered(p) :
        /\ ~IsSeller(claimed[p][i].category_id)
        /\ trace[p][i].pubStatus = 401
        /\ Finalized(p, i)

\* -------------------------------------------------------------------- C2
SellerGot401(p, i) ==
    IsSeller(claimed[p][i].category_id) /\ trace[p][i].pubStatus = 401

Second401Fails(p, i) ==
    trace[p][i].finalStatus = 401 =>
        /\ ~acc[p].results[i].ok
        /\ acc[p].results[i].status = 401
        /\ jobs[claimed[p][i].id].status = "error"
        /\ jobs[claimed[p][i].id].last_error.status = 401

\* C2 as stated: every seller job whose first public fetch returned 401 gets
\* exactly one refresh and exactly one authenticated retry, and a 401 on the
\* retry ends the job as a failure with status 401.
C2_AsStated ==
    \A p \in Procs : \A i \in Entered(p) :
        (SellerGot401(p, i) /\ (Finalized(p, i) \/ pc[p] = "done")) =>
            /\ trace[p][i].refresh = 1
            /\ trace[p][i].priv = 1
            /\ Finalized(p, i)
            /\ Second401Fails(p, i)

\* C2 amended: exactly one refresh is attempted; when it succeeds exactly one
\* authenticated retry follows and a 401 on it ends the job as a failure with
\* status 401; when the refresh fails the invocation ends with the top-level
\* failure response and no retry is made.
C2_OneRefreshThenOneRetry ==
    \A p \in Procs : \A i \in Entered(p) :
        SellerGot401(p, i) =>
            /\ trace[p][i].pub = 1
            /\ trace[p][i].refresh <= 1
            /\ trace[p][i].priv <= 1
            /\ Finalized(p, i) =>
                   /\ trace[p][i].refresh = 1
                   /\ trace[p][i].priv = 1
                   /\ Second401Fails(p, i)
            /\ (pc[p] = "done" /\ ~Finalized(p, i)) =>
                   /\ trace[p][i].refresh = 1
                   /\ trace[p][i].priv = 0
                   /\ response[p].code = 500
                   /\ response[p].error \in {"Refresh token failed", "credential write failed"}

C2_Witness ==
    \E p \in Procs : \E i \in Entered(p) :
        /\ SellerGot401(p, i)
        /\ Finalized(p, i)
        /\ trace[p][i].priv = 1
        /\ trace[p][i].finalStatus = 401

\* -------------------------------------------------------------------- C3
\* C3: a marketplace or persistence failure of one job does not end the batch:
\* an invocation that entered the loop ends either with the summary, holding
\* one entry per claimed job in batch order, or because a token refresh failed.
C3_FailuresAreIsolated ==
    \A p \in Procs :
        /\ \A i \in 1..Len(acc[p].results) : acc[p].results[i].job_id = claimed[p][i].id
        /\ (pc[p] = "done" /\ trace[p] # <<>>) =>
              \/ /\ IsSummary(response[p])
                 /\ Len(response[p].results) = Len(claimed[p])
                 /\ \A i \in 1..Len(claimed[p]) :
                        response[p].results[i].job_id = claimed[p][i].id
              \/ /\ response[p].code = 500
                 /\ response[p].error \in {"Refresh token failed", "credential write failed"}
                 /\ trace[p][Len(trace[p])].refresh = 1

C3_Witness ==
    \E p \in Procs :
        /\ IsSummary(response[p])
        /\ Len(response[p].results) = 2
        /\ response[p].results[1].db_error # ""
        /\ response[p].results[2].status = 500

\* -------------------------------------------------------------------- C4
RowsOfJob(id) == {k \in 1..Len(table) : table[k].job_id = id}

\* C4: a job whose final marketplace response has a non-success status S ends
\* with status error and a last_error embedding S, gets the entry
\* {ok:false, status:S}, has no listing row upserted and is not marked done.
C4_FailedFetchEndsInError ==
    \A p \in Procs : \A i \in Entered(p) :
        (trace[p][i].finalStatus # 0 /\ ~IsOk(trace[p][i].finalStatus)) =>
            /\ trace[p][i].upserts = 0
            /\ RowsOfJob(claimed[p][i].id) = {}
            /\ jobs[claimed[p][i].id].status # "done"
            /\ (i = acc[p].processed => pc[p] \notin {"upsert", "mark_done", "mark_error_db"})
            /\ Finalized(p, i) =>
                   /\ ~acc[p].results[i].ok
                   /\ acc[p].results[i].status = trace[p][i].finalStatus
                   /\ acc[p].results[i].db_error = ""
                   /\ jobs[claimed[p][i].id].status = "error"
                   /\ jobs[claimed[p][i].id].last_error =
                          MlError(trace[p][i].finalStatus, acc[p].results[i].payload)

C4_Witness ==
    \E p \in Procs : \E i \in Entered(p) :
        /\ Finalized(p, i)
        /\ trace[p][i].finalStatus = 500
        /\ acc[p].results[i].payload = Wrapped(<<ItemX>>)


\* -------------------------------------------------------------------- C5
UniqueKeys ==
    \A i, k \in 1..Len(table) : SameKey(table[i], table[k]) => i = k

UpsertStep(p) == pc[p] = "upsert" /\ pc'[p] = "mark_done"

\* what a successful upsert of rows does to the listing table
UpsertEffect(rows) ==
    /\ \A k \in 1..Len(rows) :
           (\A m \in (k + 1)..Len(rows) : ~SameKey(rows[k], rows[m])) =>
               \E i \in 1..Len(table') : table'[i] = rows[k]
    /\ \A i \in 1..Len(table) :
           (\A k \in 1..Len(rows) : ~SameKey(table[i], rows[k])) =>
               \E m \in 1..Len(table') : table'[m] = table[i]
    /\ (\A k \in 1..Len(rows) : \E i \in 1..Len(table) : table[i] = rows[k]) =>
           table' = table

\* C5: the listing table never holds two rows with the same (site_id, item_id);
\* a successful upsert leaves each written row in the table in place of any
\* earlier row with its key, keeps every other row, and changes nothing when
\* the rows it writes are already there.
C5_UpsertIsIdempotent ==
    /\ []UniqueKeys
    /\ [][\A p \in Procs : UpsertStep(p) => UpsertEffect(cur[p].rows)]_vars

C5_Witness ==
    \E p, q \in Procs :
        /\ p # q
        /\ trace[p] # <<>> /\ trace[q] # <<>>
        /\ claimed[p][1].id = claimed[q][1].id
        /\ trace[p][1].upsertedRows > 0
        /\ trace[q][1].upsertedRows > 0
        /\ cur[p].rows = cur[q].rows
        /\ Len(table) = Len(cur[p].rows)

\* -------------------------------------------------------------------- C6
NoJobsResponse(p) ==
    [NoResponse EXCEPT !.code = 200, !.ok = TRUE, !.msg = "no_jobs",
                       !.site_id = req[p].site_id, !.batch = req[p].batch,
                       !.limit = req[p].limit]

ClaimFindsNothing(p) ==
    /\ pc[p] = "claim" /\ pc'[p] # "claim"
    /\ \A j \in JobIds : ~(jobs[j].status = "pending" /\ jobs[j].site_id = req[p].site_id)
    /\ response'[p].error # "jobsErr"

\* C6: when the claim select finds no pending job of the requested site, the
\* invocation answers {ok:true, msg:"no_jobs", site_id, batch, limit} and ends
\* with no job, credential or listing row changed and no marketplace or OAuth
\* call made.
C6_NoJobsTouchesNothing ==
    /\ [][\A p \in Procs : ClaimFindsNothing(p) =>
              /\ pc'[p] = "done"
              /\ response'[p] = NoJobsResponse(p)
              /\ UNCHANGED <<jobs, creds, table, oauthGen, trace, tok, claimed>>]_vars
    /\ [](\A p \in Procs : response[p].msg = "no_jobs" =>
              /\ pc[p] = "done"
              /\ trace[p] = <<>>
              /\ tok[p] = NoTokens
              /\ claimed[p] = <<>>)

C6_Witness ==
    \E p \in Procs :
        /\ response[p].msg = "no_jobs"
        /\ \E j \in JobIds : jobs[j].status = "pending"
        /\ \A j \in JobIds : jobs[j].attempts = IF jobs[j].status = "done" THEN 1 ELSE 0

\* -------------------------------------------------------------------- C7
\* C7: a request whose method is not POST is answered 405 "Method not allowed"
\* and ends there: no job is read, no token resolved, no external call made
\* and no stored state changed.
C7_OnlyPostIsProcessed ==
    /\ [][\A p \in Procs : (pc[p] = "start" /\ pc'[p] # "start" /\ req'[p].method # "POST") =>
              /\ pc'[p] = "done"
              /\ response'[p] = [NoResponse EXCEPT !.code = 405,
                                                   !.error = "Method not allowed"]
              /\ UNCHANGED <<jobs, creds, table, oauthGen, claimed, tok, acc, trace>>]_vars
    /\ [](\A p \in Procs : (req[p].method \notin {"", "POST"}) =>
              /\ pc[p] = "done"
              /\ response[p].code = 405
              /\ claimed[p] = <<>>
              /\ tok[p] = NoTokens
              /\ trace[p] = <<>>)

C7_Witness ==
    \E p \in Procs :
        /\ req[p].method = "GET"
        /\ response[p].code = 405
        /\ \E j \in JobIds : jobs[j].status = "pending" /\ jobs[j].site_id = req[p].site_id

\* -------------------------------------------------------------------- C8
RECURSIVE SumOver(_, _, _)
\* the sum of F(i) for i in lo..hi
SumOver(F(_), lo, hi) == IF lo > hi THEN 0 ELSE F(lo) + SumOver(F, lo + 1, hi)

\* C8: in every summary, processed is the size of the claimed batch and
\* inserted is the sum of the row counts of the successful upserts, which is
\* the sum of the items fields of the ok:true entries.
C8_CountersMatch ==
    \A p \in Procs :
        IsSummary(response[p]) =>
            LET r == response[p]
                upserted(i) == trace[p][i].upsertedRows
                okItems(i) == IF r.results[i].ok THEN r.results[i].items ELSE 0
            IN  /\ r.processed = Len(claimed[p])
                /\ r.processed = Len(trace[p])
                /\ r.inserted = SumOver(upserted, 1, Len(trace[p]))
                /\ r.inserted = SumOver(okItems, 1, Len(r.results))

C8_Witness ==
    \E p \in Procs :
        /\ IsSummary(response[p])
        /\ Len(response[p].results) = 2
        /\ response[p].results[1].db_error # ""
        /\ response[p].results[2].ok
        /\ response[p].results[2].items = 2
        /\ response[p].inserted = 2

\* -------------------------------------------------------------------- C9
ResolveStep(p) == pc[p] = "token" /\ pc'[p] = "loop"

\* C9: tokens are resolved once, before any job is entered: with a bearer
\* credential in the request the access token is that credential, the refresh
\* token the latest stored one and token_source "header"; without one both
\* tokens are the latest stored ones and token_source is "db"; every summary
\* carries token_source "header" or "db".
C9_TokenResolvedOnce ==
    /\ [][\A p \in Procs :
              /\ ResolveStep(p) =>
                    /\ acc[p].processed = 0
                    /\ tok[p] = NoTokens
                    /\ req[p].header = HdrBearer =>
                           tok'[p] = [token_source |-> "header", accessToken |-> HeaderTok,
                                      refreshTok |-> creds[Len(creds)].refresh_token]
                    /\ req[p].header \in {HdrAbsent, HdrBlank} =>
                           tok'[p] = [token_source |-> "db",
                                      accessToken |-> creds[Len(creds)].access_token,
                                      refreshTok |-> creds[Len(creds)].refresh_token]
              /\ tok[p].token_source # "none" =>
                    tok'[p].token_source = tok[p].token_source]_vars
    /\ [](\A p \in Procs :
              /\ trace[p] # <<>> => tok[p].token_source \in {"header", "db"}
              /\ pc[p] \in {"start", "claim", "token"} => tok[p] = NoTokens
              /\ IsSummary(response[p]) => response[p].token_source \in {"header", "db"})

C9_Witness ==
    \E p \in Procs :
        /\ IsSummary(response[p])
        /\ response[p].results # <<>>
        /\ response[p].token_source = "header"
        /\ tok[p].accessToken = HeaderTok

\* ------------------------------------------------------------------- C10
Extracted(p) == pc[p] \in {"upsert", "mark_done"} /\ IsOk(cur[p].status)

\* C10: extract_items gives the "results" field when it is a non-empty list,
\* else the payload itself when it is a non-empty list, else the empty
\* sequence: [] for {}, {results: []} and [], and the list as it is for a
\* wrapped non-empty results list and for a bare non-empty list.
C10_ExtractItems ==
    \A p \in Procs :
        Extracted(p) =>
            LET payload == cur[p].payload
                items == cur[p].items
                wrapped == payload.kind = "object" /\ payload.resultsIsArray
                               /\ payload.results # <<>>
                bare == payload.kind = "array" /\ payload.elems # <<>>
            IN  /\ wrapped => items = payload.results
                /\ (~wrapped /\ bare) => items = payload.elems
                /\ (~wrapped /\ ~bare) => items = <<>>
                /\ payload \in {EmptyObject, Wrapped(<<>>), Bare(<<>>)} => items = <<>>
                /\ payload = Wrapped(<<ItemX>>) => items = <<ItemX>>
                /\ payload = Bare(<<StrItem("MLC999"), StrItem("MLC111")>>) =>
                       items = <<StrItem("MLC999"), StrItem("MLC111")>>

C10_Witness ==
    \E p \in Procs :
        /\ pc[p] = "mark_done"
        /\ cur[p].payload = Wrapped(<<>>)
        /\ cur[p].items = <<>>
        /\ trace[p][1].upserts = 0


\* ------------------------------------------------------------------- C11
StatusMoves ==
    {<<"pending", "processing">>, <<"processing", "done">>, <<"processing", "error">>}

\* C11: within one invocation a job's status only moves pending -> processing
\* -> done or error: it is processing before any fetch is made for it, it is
\* finalized at most once, and a finalized job is never moved again.
C11_StatusIsMonotonic ==
    /\ [][\A j \in JobIds :
              jobs'[j].status # jobs[j].status =>
                  <<jobs[j].status, jobs'[j].status>> \in StatusMoves]_vars
    /\ [](\A p \in Procs :
              /\ \A i, k \in 1..Len(acc[p].results) :
                     acc[p].results[i].job_id = acc[p].results[k].job_id => i = k
              /\ \A i \in Entered(p) :
                     /\ ~Finalized(p, i) => jobs[claimed[p][i].id].status = "processing"
                     /\ Finalized(p, i) =>
                            jobs[claimed[p][i].id].status =
                                IF acc[p].results[i].ok THEN "done" ELSE "error")

C11_Witness ==
    \E p \in Procs :
        /\ Len(acc[p].results) = 2
        /\ jobs[claimed[p][1].id].status = "error"
        /\ jobs[claimed[p][2].id].status = "done"
        /\ trace[p][2].priv = 1


\* ------------------------------------------------------------------- C12
Aborted(p) ==
    /\ pc[p] = "done"
    /\ response[p].code = 500
    /\ response[p].error \in {"credential read failed", "No token found in meli_oauth_tokens",
                              "Refresh token failed", "credential write failed"}

\* C12: when an invocation ends with the top-level failure response after a
\* failed credential lookup or a failed token refresh, every job it touched is
\* finalized: none of its jobs is left in status processing.
C12_AbortLeavesNoJobProcessing ==
    \A p \in Procs :
        Aborted(p) =>
            /\ \A i \in Entered(p) : Finalized(p, i)
            /\ \A i \in 1..Len(claimed[p]) :
                   jobs[claimed[p][i].id].status \in {"pending", "done", "error"}


\* ------------------------------------------------------------------- C13
Refreshes(p) ==
    LET n(i) == trace[p][i].refresh IN SumOver(n, 1, Len(trace[p]))

\* C13 as stated: an invocation performs at most one token refresh.
C13_AsStated == \A p \in Procs : Refreshes(p) <= 1

\* C13 amended: the in-memory token pair is replaced only by a successful
\* refresh, at most once per job and only for a seller job whose public fetch
\* returned 401, by the pair that refresh returned; a later seller job that
\* gets a 401 refreshes again.
C13_OneRefreshPerSeller401 ==
    /\ [][\A p \in Procs :
              /\ (tok[p] # NoTokens /\ tok'[p] # tok[p]) =>
                     (pc[p] = "refresh_save" /\ pc'[p] = "private")
              /\ (pc[p] = "refresh_save" /\ pc'[p] = "private") =>
                     /\ SellerGot401(p, acc[p].processed)
                     /\ tok'[p] = [token_source |-> tok[p].token_source,
                                   accessToken |-> trace[p][acc[p].processed].gotAccess,
                                   refreshTok |-> trace[p][acc[p].processed].gotRefresh]]_vars
    /\ [](\A p \in Procs : \A i \in Entered(p) :
              /\ trace[p][i].refresh <= 1
              /\ trace[p][i].refresh = 1 => SellerGot401(p, i)
              /\ (SellerGot401(p, i) /\ Finalized(p, i)) => trace[p][i].refresh = 1)

C13_Witness ==
    \E p \in Procs :
        /\ Len(acc[p].results) = 2
        /\ trace[p][1].refresh = 1
        /\ trace[p][2].refresh = 1
        /\ trace[p][2].sentRefresh = RefreshTok(1)
        /\ tok[p].refreshTok = RefreshTok(2)


\* ------------------------------------------------------------------- C14
\* the number of times job j was marked processing
Marks(j) ==
    Cardinality({<<p, i>> \in Procs \X (1..NJobs) :
                    i \in Entered(p) /\ claimed[p][i].id = j})

\* C14: a job's stored attempts is the value it had when it was claimed plus
\* the number of times it was marked processing, overlapping invocations
\* included.
C14_AttemptsCountsEveryMark ==
    \A p \in Procs : \A i \in Entered(p) :
        jobs[claimed[p][i].id].attempts =
            claimed[p][i].attempts + Marks(claimed[p][i].id)


\* ------------------------------------------------------------------- C15
AtLoopHead(p) == pc[p] = "loop" /\ acc[p].processed < Len(claimed[p])
MarkStep(p) == AtLoopHead(p) /\ pc'[p] = "fetch"

\* C15: claiming is no exclusive lease: an invocation that selected a job marks
\* it processing and runs it whatever the row's status has become since the
\* select, so two overlapping invocations can both run the same job to its end.
C15_ClaimIsNotExclusive ==
    /\ [](\A p \in Procs : AtLoopHead(p) => ENABLED MarkProcessing(p))
    /\ [][\A p \in Procs : MarkStep(p) =>
              LET job == claimed[p][acc[p].processed + 1]
              IN  /\ jobs'[job.id].status = "processing"
                  /\ jobs'[job.id].attempts = job.attempts + 1]_vars

C15_Witness ==
    \E p, q \in Procs :
        /\ p # q
        /\ IsSummary(response[p]) /\ IsSummary(response[q])
        /\ response[p].results[1].job_id = response[q].results[1].job_id
        /\ response[p].results[1].ok /\ response[q].results[1].ok
        /\ trace[p][1].upsertedRows > 0 /\ trace[q][1].upsertedRows > 0
        /\ response[p].inserted + response[q].inserted > Len(table)


\* ------------------------------------------------------------------- C16
UpsertFailed(p, i) == trace[p][i].upserts = 1 /\ trace[p][i].upsertedRows = 0

\* C16: a job whose upsert fails ends with status error and a last_error
\* embedding the storage error, gets the entry {ok:false, db_error}, is not
\* marked done and adds nothing to inserted, and the loop goes on to the next
\* job.
C16_FailedUpsertEndsInError ==
    \A p \in Procs : \A i \in Entered(p) :
        UpsertFailed(p, i) =>
            LET id == claimed[p][i].id
                upserted(k) == trace[p][k].upsertedRows
            IN  /\ jobs[id].status # "done"
                /\ RowsOfJob(id) = {}
                /\ acc[p].inserted = SumOver(upserted, 1, Len(trace[p]))
                /\ ~Finalized(p, i) => pc[p] = "mark_error_db"
                /\ Finalized(p, i) =>
                       /\ ~acc[p].results[i].ok
                       /\ acc[p].results[i].db_error = "upErr"
                       /\ acc[p].results[i].status = 0
                       /\ jobs[id].status = "error"
                       /\ jobs[id].last_error = DbUpsertError("upErr")
                       /\ Len(acc[p].results) <= Len(trace[p])
                /\ (Finalized(p, i) /\ i < Len(claimed[p]) /\ pc[p] = "done") =>
                       i < Len(trace[p])

C16_Witness ==
    \E p \in Procs :
        /\ Len(acc[p].results) = 2
        /\ UpsertFailed(p, 1)
        /\ acc[p].results[1].db_error = "upErr"
        /\ acc[p].results[2].ok
        /\ acc[p].inserted = 1


\* ------------------------------------------------------------------- C17
InFlight(p) == {i \in Entered(p) : ~Finalized(p, i)}

\* C17: the jobs of a batch are handled one after the other in ascending id
\* order: a job is marked processing only when every claimed job with a
\* smaller id is done or error, so at most one job of the invocation is
\* between its mark and its finalization.
C17_OneJobAtATime ==
    \A p \in Procs :
        /\ \A i, k \in 1..Len(claimed[p]) : i < k => claimed[p][i].id < claimed[p][k].id
        /\ Cardinality(InFlight(p)) <= 1
        /\ InFlight(p) \subseteq {Len(trace[p])}
        /\ \A i \in Entered(p) : \A k \in 1..Len(claimed[p]) :
               claimed[p][k].id < claimed[p][i].id =>
                   /\ Finalized(p, k)
                   /\ jobs[claimed[p][k].id].status \in {"done", "error"}
        /\ Cardinality({k \in 1..Len(claimed[p]) :
                           jobs[claimed[p][k].id].status = "processing"}) <= 1

C17_Witness ==
    \E p \in Procs :
        /\ Len(claimed[p]) = 2
        /\ Len(trace[p]) = 2
        /\ InFlight(p) = {2}
        /\ jobs[claimed[p][1].id].status = "error"
        /\ jobs[claimed[p][2].id].status = "processing"


\* ------------------------------------------------------------------- C18
\* a parsed payload that holds no item
NoItems(payload) ==
    /\ ~(payload.kind = "object" /\ payload.resultsIsArray /\ payload.results # <<>>)
    /\ ~(payload.kind = "array" /\ payload.elems # <<>>)

\* the current job has its final response classified
Classed(p) ==
    /\ trace[p] # <<>>
    /\ cur[p].status # 0
    /\ cur[p].status = trace[p][acc[p].processed].finalStatus
    /\ pc[p] \notin {"refresh", "refresh_save", "private"}

\* C18: a success status with no item (empty results, empty list, or a
\* malformed body read as {}) makes no upsert call and changes no listing row,
\* and the job is marked done with a success entry of items = 0; a malformed
\* body with a non-success status ends the job in error.
C18_EmptyPayloadIsDone ==
    \A p \in Procs :
        /\ Classed(p) =>
              LET i == acc[p].processed
                  id == claimed[p][i].id
              IN  /\ (IsOk(cur[p].status) /\ NoItems(cur[p].payload)) =>
                         /\ pc[p] \notin {"upsert", "mark_error_db", "mark_error"}
                         /\ trace[p][i].upserts = 0
                         /\ RowsOfJob(id) = {}
                         /\ Finalized(p, i) =>
                                /\ acc[p].results[i].ok
                                /\ acc[p].results[i].items = 0
                                /\ jobs[id].status = "done"
                  /\ (~IsOk(cur[p].status) /\ cur[p].payload = EmptyObject) =>
                         /\ pc[p] \notin {"upsert", "mark_error_db", "mark_done"}
                         /\ Finalized(p, i) =>
                                /\ ~acc[p].results[i].ok
                                /\ acc[p].results[i].status = cur[p].status
                                /\ jobs[id].status = "error"
        /\ \A i \in 1..Len(acc[p].results) :
               (acc[p].results[i].ok /\ acc[p].results[i].items = 0) <=>
                   (IsOk(trace[p][i].finalStatus) /\ trace[p][i].upserts = 0)

C18_Witness ==
    \E p \in Procs :
        /\ Classed(p)
        /\ Finalized(p, acc[p].processed)
        /\ cur[p].status = 200
        /\ cur[p].payload = Bare(<<>>)
        /\ acc[p].results[acc[p].processed].items = 0
        /\ table = <<>>


\* ------------------------------------------------------------------- C19
ClaimStep(p) == pc[p] = "claim" /\ pc'[p] = "token"
ClaimedIds(p) == {claimed[p][i].id : i \in 1..Len(claimed[p])}

\* the batch an invocation claims, against the job table it was read from
BatchIsRight(p) ==
    LET c == claimed'[p]
        ids == {c[i].id : i \in 1..Len(c)}
        cand == {j \in JobIds : jobs[j].status = "pending"
                                  /\ jobs[j].site_id = req[p].site_id}
    IN  /\ Len(c) <= req[p].batch
        /\ Cardinality(ids) = Len(c)
        /\ ids \subseteq cand
        /\ Len(c) < req[p].batch => ids = cand
        /\ \A j \in cand \ ids : \A k \in ids : k < j
        /\ \A i \in 1..Len(c) : c[i].attempts = jobs[c[i].id].attempts

\* C19: an invocation changes only jobs of its claimed batch: at most `batch`
\* jobs, all pending with the requested site_id when claimed and the ones with
\* the smallest ids among those; every other job row stays as it is.
C19_OnlyTheBatchIsTouched ==
    [][/\ \A p \in Procs : ClaimStep(p) => BatchIsRight(p)
       /\ \A j \in JobIds :
              jobs'[j] # jobs[j] => \E p \in Procs : j \in ClaimedIds(p)]_vars

C19_Witness ==
    \E p \in Procs :
        /\ IsSummary(response[p])
        /\ Len(claimed[p]) = 1
        /\ \E j \in JobIds \ ClaimedIds(p) :
               /\ jobs[j] = JobRow(req[p].site_id, CatSeller, "pending", 0)
               /\ \A k \in ClaimedIds(p) : k < j
        /\ \E j \in JobIds : jobs[j] = JobRow("MLA", CatPlain, "pending", 0)
        /\ req[p].site_id = "MLC"


\* ------------------------------------------------------------------- C20
\* the refresh token the latest refresh before job i returned, the stored one
\* when there was none
PrevRefresh(p, i) ==
    LET earlier == {k \in 1..(i - 1) : trace[p][k].gotRefresh # NoTok}
    IN  IF earlier = {} THEN StoredCred.refresh_token
        ELSE trace[p][CHOOSE k \in earlier : \A m \in earlier : m <= k].gotRefresh

\* C20: the access token resolved at the start is never sent to the
\* marketplace: an authenticated fetch carries the access token the refresh of
\* the same job returned, and a refresh sends the refresh token the latest
\* earlier refresh of the invocation returned, or the stored one.
C20_OnlyRefreshedTokensAreSent ==
    \A p \in Procs : \A i \in Entered(p) :
        /\ trace[p][i].priv >= 1 =>
               /\ trace[p][i].refresh = 1
               /\ trace[p][i].gotAccess # NoTok
               /\ trace[p][i].sentAccess = trace[p][i].gotAccess
               /\ trace[p][i].sentAccess \notin {HeaderTok, StoredCred.access_token}
               /\ \A k \in 1..(i - 1) : trace[p][i].sentAccess # trace[p][k].sentAccess
        /\ trace[p][i].refresh >= 1 => trace[p][i].sentRefresh = PrevRefresh(p, i)

C20_Witness ==
    \E p \in Procs :
        /\ tok[p].token_source = "header"
        /\ Len(trace[p]) = 2
        /\ trace[p][1].priv = 1
        /\ trace[p][2].priv = 1
        /\ trace[p][2].sentRefresh = RefreshTok(1)
        /\ trace[p][2].sentAccess = AccessTok(2)

====
